---- MODULE Spec2Model ----
(***************************************************************************)
(* State-machine model of the Sticky Notes Integration shell extension:    *)
(* the compositor's window list, StickyNotesInterface (window tracking,    *)
(* launch lock and launch tasks), MultiWindowHandler (window selection),   *)
(* BackgroundMenuOverride (background menu entries) and                    *)
(* StickyNotesIndicator (icon, quick-action bindings, press debouncing).   *)
(***************************************************************************)
EXTENDS Integers, Sequences, FiniteSets, TLC

VARIABLES
    windows,        \* global.get_window_actors(): the compositor's window list, oldest/bottom first
    n_windows,      \* StickyNotesInterface._n_windows
    keep_alive,     \* StickyNotesInterface._keep_alive
    launch_lock,    \* StickyNotesInterface._launch_lock
    launch_tasks,   \* StickyNotesInterface._launch_tasks
    connected,      \* names of the signal handlers that are still connected
    primary,        \* global.display.get_primary_monitor()
    visible,        \* setting override-background-menu
    menus,          \* one background menu per monitor: the entries added on top of the default ones
    item_menu,      \* index of the menu holding _new_note_menu_item/_separator_menu_item, 0 when none
    disabled,       \* the extension's disable() has run
    use_builtin,    \* setting use-builtin-icon
    active_icon,    \* StickyNotesIndicator._active_icon
    inactive_icon,  \* StickyNotesIndicator._inactive_icon
    icon,           \* gicon shown by StickyNotesIndicator._icon
    bindings,       \* StickyNotesIndicator._bindings: trigger -> action number, 0 when null
    last_event,     \* StickyNotesIndicator._last_event, NoEvent when null
    now,            \* timestamp of the latest input event
    last_press,     \* history: timestamp of the last button press that was handled
    auto_start,     \* setting auto-start
    desktop_file,   \* ~/.config/autostart/<id>.desktop exists
    autostart_handler, \* running invocations of the changed::auto-start handler, innermost last
    installed,      \* the Sticky Notes executable is in PATH
    prefs_open,     \* a preferences window has been filled and is open
    general_groups, \* StickyNotesIntegrationPreferences._general_groups: sensitive or not
    indicator_groups, \* StickyNotesIntegrationPreferences._indicator_groups: sensitive or not
    error_boxes,    \* error boxes added to the General page
    short_conn,     \* a ShortConnection: connected, emissions seen, callback results
    lastOp          \* what the last step did (operation, inputs, result)

vars == << windows, n_windows, keep_alive, launch_lock, launch_tasks,
           connected, primary, visible, menus, item_menu, disabled,
           use_builtin, active_icon, inactive_icon, icon, bindings, last_event,
           now, last_press, auto_start, desktop_file, autostart_handler,
           installed, prefs_open, general_groups, indicator_groups, error_boxes,
           short_conn, lastOp >>

compositorVars == << windows, primary >>
ifaceVars      == << n_windows, keep_alive, launch_lock, launch_tasks >>
menuVars       == << visible, menus, item_menu, disabled >>
iconVars       == << use_builtin, active_icon, inactive_icon, icon >>
inputVars      == << bindings, last_event, now, last_press >>
prefsVars      == << auto_start, desktop_file, autostart_handler, installed, prefs_open,
                     general_groups, indicator_groups, error_boxes >>
sideVars       == << prefsVars, short_conn >>

----------------------------------------------------------------------------
(* Bounds of the model *)

MaxWindows  == 3    \* windows in the compositor's list at one time
MaxMonitors == 2    \* monitors (and background menus)
MaxSched    == 1    \* pending 'shown' connections per window
StartTime   == 1000 \* timestamp (ms) at which the indicator is created
MaxTime     == 1400 \* input events are stamped up to MaxTime milliseconds
MaxCommands == 3    \* candidates in a list given to first_available
MaxNesting  == 4    \* nested invocations of the changed::auto-start handler
MaxEmissions == 4   \* emissions of the signal a ShortConnection is connected to

----------------------------------------------------------------------------
(* Program constants *)

WM_CLASS == "com.vixalien.sticky"
OtherClass == "org.gnome.Terminal"
LAUNCH_CMD == "launch"
NEWNOTE_CMD == "newnote"
OPEN_CMD == "xdg-open"

VisNever   == 0
VisDynamic == 1
VisAlways  == 2
Visibility == {VisNever, VisDynamic, VisAlways}

DEFAULT_BGMENU_ITEMS == 4

Classes == {WM_CLASS, OtherClass}
Monitors == 0 .. (MaxMonitors - 1)

\* frame positions: where a window opens, stack()'s default, a pointer position
HomePos  == << 0, 0 >>
StackPos == << 20, 50 >>
ClickPos == << 7, 9 >>
Positions == {HomePos, StackPos, ClickPos}

\* a window of the compositor's list
\* old and taskMoved are history: the window existed at the latest new(), a queued
\* move task selected it
NewWindow(cls, hidden, movable, mon) ==
    [ cls |-> cls, hidden |-> hidden, movable |-> movable, mon |-> mon,
      pos |-> HomePos, sched |-> << >>, killed |-> FALSE,
      old |-> FALSE, taskMoved |-> FALSE, id |-> 0 ]

----------------------------------------------------------------------------
(* MultiWindowHandler *)

Indices(ws) == [ i \in 1 .. Len(ws) |-> i ]
\* an actor list that is left in list order
NotReversed(s) == s

\* Array.prototype.reverse()
Reversed(s) == [ i \in 1 .. Len(s) |-> s[Len(s) + 1 - i] ]

RECURSIVE GetFrom(_, _, _, _, _)
GetFrom(ws, actors, wm_class, n, found) ==
    IF actors = << >> THEN found
    ELSE IF ws[Head(actors)].cls = wm_class
         THEN LET more == Append(found, Head(actors)) IN
              IF n # 0 /\ Len(more) >= n THEN more
              ELSE GetFrom(ws, Tail(actors), wm_class, n, more)
         ELSE GetFrom(ws, Tail(actors), wm_class, n, found)

\* the selected windows, as indices into ws, in selection order
Get(ws, wm_class, n, newer_first) ==
    GetFrom(ws, IF newer_first THEN Reversed(Indices(ws)) ELSE Indices(ws),
            wm_class, n, << >>)

\* a count that forgets the class filter
CountAnyClass(ws, wm_class, active_only) ==
    Cardinality({ i \in 1 .. Len(ws) : ~(active_only /\ ws[i].hidden) })

Count(ws, wm_class, active_only) ==
    Cardinality({ i \in 1 .. Len(ws) :
                    /\ ~(active_only /\ ws[i].hidden)
                    /\ ws[i].cls = wm_class })

Range(s) == { s[i] : i \in 1 .. Len(s) }

\* Meta.Window 'shown': the window becomes visible and every handler connected by
\* schedule() runs once, in connection order, and disconnects
Shown(w) ==
    [ w EXCEPT !.hidden = FALSE,
               !.pos = IF w.sched = << >> THEN w.pos ELSE w.sched[Len(w.sched)],
               !.sched = << >> ]

Minimize(ws, wm_class, n, newer_first) ==
    LET sel == Range(Get(ws, wm_class, n, newer_first)) IN
    [ i \in 1 .. Len(ws) |-> IF i \in sel THEN [ ws[i] EXCEPT !.hidden = TRUE ] ELSE ws[i] ]

Kill(ws, wm_class, n, newer_first) ==
    LET sel == Range(Get(ws, wm_class, n, newer_first)) IN
    [ i \in 1 .. Len(ws) |-> IF i \in sel THEN [ ws[i] EXCEPT !.killed = TRUE ] ELSE ws[i] ]

\* a JavaScript value used as a condition: null and 0 are falsy
NullArg == [ isNull |-> TRUE, v |-> 0 ]
Num(v) == [ isNull |-> FALSE, v |-> v ]
Truthy(a) == ~a.isNull /\ a.v # 0

MoveWindow(w, x, y, monitor, byTask) ==
    LET w1 == IF Truthy(monitor) THEN [ w EXCEPT !.mon = monitor.v ] ELSE w
        w2 == IF w1.hidden \/ ~w1.movable
              THEN [ w1 EXCEPT !.sched = Append(w1.sched, << x, y >>) ]
              ELSE [ w1 EXCEPT !.pos = << x, y >> ]
    IN [ w2 EXCEPT !.taskMoved = w.taskMoved \/ byTask ]

MoveTo(ws, wm_class, x, y, monitor, n, newer_first, byTask) ==
    LET sel == Range(Get(ws, wm_class, n, newer_first)) IN
    [ i \in 1 .. Len(ws) |->
        IF i \in sel THEN MoveWindow(ws[i], x, y, monitor, byTask) ELSE ws[i] ]

\* an activation that shows the window and leaves the stacking order alone
ActivateInPlace(ws, wm_class, n, newer_first) ==
    LET sel == Range(Get(ws, wm_class, n, newer_first)) IN
    [ i \in 1 .. Len(ws) |-> IF i \in sel THEN Shown(ws[i]) ELSE ws[i] ]

\* activate(): every selected window is shown and raised, in selection order
Activate(ws, wm_class, n, newer_first) ==
    LET sel == Get(ws, wm_class, n, newer_first)
        rest == SelectSeq(Indices(ws), LAMBDA i : i \notin Range(sel))
    IN [ i \in 1 .. Len(rest) |-> ws[rest[i]] ]
       \o [ i \in 1 .. Len(sel) |-> Shown(ws[sel[i]]) ]

----------------------------------------------------------------------------
(* utils.js *)

SpawnOutcomes == {"ok", "exit_nonzero", "spawn_error"}

\* execute_async(): throws when the spawn fails, otherwise returns 0 at once; the
\* subprocess' exit status is only seen by the asynchronous callback
ExecuteAsync(outcome) ==
    [ threw |-> (outcome = "spawn_error"), exit |-> 0 ]

\* is_available(name): the command is found in PATH
IsAvailable(name, path) == name \in path

\* first_available(commands): the loop runs from the last index down to 0
RECURSIVE FirstAvailable(_, _)
FirstAvailable(commands, path) ==
    IF commands = << >> THEN "null"
    ELSE IF IsAvailable(commands[Len(commands)], path) THEN commands[Len(commands)]
    ELSE FirstAvailable(SubSeq(commands, 1, Len(commands) - 1), path)

\* safe_disconnect(handler_id, instance): instance.disconnect(handler_id) inside
\* try/catch; only an object has a disconnect method, only an id names a handler
ObjectArg(name) == [ kind |-> "object", name |-> name ]
IdArg(name)     == [ kind |-> "id", name |-> name ]
SafeDisconnect(conn, handler_id, instance) ==
    IF instance.kind = "object" /\ handler_id.kind = "id"
    THEN conn \ {handler_id.name}
    ELSE conn

----------------------------------------------------------------------------
(* StickyNotesInterface: the operations, on a record of the state they touch *)
(*   ws, n, lock, tasks : windows, _n_windows, _launch_lock, _launch_tasks  *)
(*   cmds : commands issued by this call,                                  *)
(*   res  : "true", "false", "undefined" (bare return) or "exception"       *)

Cur == [ ws |-> windows, n |-> n_windows, lock |-> launch_lock,
         tasks |-> launch_tasks, cmds |-> << >>, res |-> "none" ]

BoolRes(b) == IF b THEN "true" ELSE "false"

\* the call of execute_async(command), with what becomes of the subprocess
Exec(s, command, outcome) ==
    [ s EXCEPT !.cmds = Append(@, [ cmd |-> command, outcome |-> outcome ]) ]

OpLaunch(s, outcome) ==
    IF s.lock THEN [ s EXCEPT !.res = "undefined" ]
    ELSE LET r  == ExecuteAsync(outcome)
             s1 == Exec(s, LAUNCH_CMD, outcome)
         IN IF r.threw THEN [ s1 EXCEPT !.res = "exception" ]
            ELSE [ s1 EXCEPT !.lock = ~(r.exit # 0), !.res = BoolRes(~(r.exit # 0)) ]

OpShow(s, n, newer_first) ==
    [ s EXCEPT !.ws = Activate(s.ws, WM_CLASS, n, newer_first),
               !.res = BoolRes(Len(Get(s.ws, WM_CLASS, n, newer_first)) # 0) ]

OpHide(s, n, newer_first) ==
    [ s EXCEPT !.ws = Minimize(s.ws, WM_CLASS, n, newer_first),
               !.res = BoolRes(Len(Get(s.ws, WM_CLASS, n, newer_first)) # 0) ]

OpClose(s, n, newer_first) ==
    [ s EXCEPT !.ws = Kill(s.ws, WM_CLASS, n, newer_first),
               !.res = BoolRes(Len(Get(s.ws, WM_CLASS, n, newer_first)) # 0) ]

\* a toggle that goes by the cached active status
OpToggleByActive(s) ==
    [ (IF s.n # 0 THEN OpHide(s, 0, TRUE) ELSE OpShow(s, 0, TRUE))
      EXCEPT !.res = "undefined" ]

OpToggle(s) ==
    [ (IF Count(s.ws, WM_CLASS, TRUE) # 0 THEN OpHide(s, 0, TRUE) ELSE OpShow(s, 0, TRUE))
      EXCEPT !.res = "undefined" ]

MoveTask(at) == [ kind |-> "moveTo", x |-> at[1], y |-> at[2] ]
HideTask     == [ kind |-> "hide", x |-> 0, y |-> 0 ]

\* windows that exist when new() is called are remembered as old
MarkOld(ws) == [ i \in 1 .. Len(ws) |-> [ ws[i] EXCEPT !.old = TRUE ] ]

OpNew(s, at, outcome) ==
    IF s.lock THEN [ s EXCEPT !.res = "undefined" ]
    ELSE LET s0 == [ s EXCEPT !.ws = MarkOld(s.ws) ]
             s1 == IF s0.n # 0 THEN OpClose(s0, 0, TRUE) ELSE s0
             r  == ExecuteAsync(outcome)
             s2 == Exec(s1, NEWNOTE_CMD, outcome)
         IN IF r.threw THEN [ s2 EXCEPT !.res = "exception" ]
            ELSE [ s2 EXCEPT
                     !.lock  = ~(r.exit # 0),
                     !.tasks = IF ~(r.exit # 0) /\ Len(at) = 2
                               THEN Append(@, MoveTask(at)) ELSE @,
                     !.res   = BoolRes(~(r.exit # 0)) ]

OpStack(s, x, y, primary_monitor) ==
    [ s EXCEPT !.ws = MoveTo(s.ws, WM_CLASS, x, y, Num(primary_monitor), 0, TRUE, FALSE),
               !.res = BoolRes(Len(Get(s.ws, WM_CLASS, 0, TRUE)) # 0) ]

\* restart(): close and launch are looked up on the class, which has no such
\* static methods, so the first call throws a TypeError before anything is done
OpRestart(s) == [ s EXCEPT !.res = "exception" ]

OpOpenNotes(s, outcome) ==
    LET r  == ExecuteAsync(outcome)
        s1 == Exec(s, OPEN_CMD, outcome)
    IN IF r.threw THEN [ s1 EXCEPT !.res = "exception" ]
       ELSE [ s1 EXCEPT !.res = BoolRes(~(r.exit # 0)) ]

\* the 'window-opened' default handler
RunTask(task, ws) ==
    IF task.kind = "hide"
    THEN Minimize(ws, WM_CLASS, 0, TRUE)
    ELSE MoveTo(ws, WM_CLASS, task.x, task.y, NullArg, 1, TRUE, TRUE)

RECURSIVE RunTasks(_, _)
RunTasks(tasks, ws) ==
    IF tasks = << >> THEN ws ELSE RunTasks(Tail(tasks), RunTask(Head(tasks), ws))

OnWindowOpened(s) ==
    [ s EXCEPT !.ws = RunTasks(s.tasks, s.ws), !.lock = FALSE, !.tasks = << >> ]

RECURSIVE EmitWindowOpened(_, _)
EmitWindowOpened(k, s) ==
    IF k = 0 THEN s ELSE EmitWindowOpened(k - 1, OnWindowOpened(s))

----------------------------------------------------------------------------
(* BackgroundMenuOverride, on a record of menus, item_menu and connected *)

NEW_NOTE  == "New Note"
SEPARATOR == "separator"

BgHandlers == { "changed::override-background-menu", "notify::active",
                "monitors-changed", "startup-complete", "updated",
                "locked-changed", "active-changed", "wake-up-screen" }
TrackHandlers == { "app-state-changed", "restacked" }
ShellSignals == { "startup-complete", "updated", "locked-changed",
                  "active-changed", "wake-up-screen" }

CurMenu == [ menus |-> menus, item |-> item_menu, conn |-> connected ]

DefaultMenus(k) == [ i \in 1 .. k |-> << >> ]

\* numMenuItems of the first background manager's menu against the default count
IsOverriden(ms) == DEFAULT_BGMENU_ITEMS + Len(ms[1]) > DEFAULT_BGMENU_ITEMS

ShouldOverride(vis, isActive) ==
    vis = VisAlways \/ (vis = VisDynamic /\ isActive)

\* every menu gets a separator and a 'New Note' item at position 0; the members
\* _new_note_menu_item and _separator_menu_item end up naming the last menu's items
Apply(b) ==
    IF IsOverriden(b.menus) THEN b
    ELSE [ b EXCEPT !.menus = [ i \in 1 .. Len(b.menus) |->
                                  << NEW_NOTE, SEPARATOR >> \o b.menus[i] ],
                    !.item = Len(b.menus) ]

RECURSIVE RemoveFirst(_, _)
RemoveFirst(s, e) ==
    IF s = << >> THEN s
    ELSE IF Head(s) = e THEN Tail(s) ELSE << Head(s) >> \o RemoveFirst(Tail(s), e)

\* destroy() of the two items the members name
DestroyItems(b) ==
    IF b.item = 0 THEN b
    ELSE [ b EXCEPT !.menus[b.item] = RemoveFirst(RemoveFirst(@, NEW_NOTE), SEPARATOR),
                    !.item = 0 ]

RevertDisconnects(conn) ==
    LET c1 == SafeDisconnect(conn, ObjectArg("settings"), IdArg("changed::override-background-menu"))
        c2 == SafeDisconnect(c1, ObjectArg("sticky_notes"), IdArg("notify::active"))
        c3 == SafeDisconnect(c2, ObjectArg("layoutManager"), IdArg("monitors-changed"))
        c4 == SafeDisconnect(c3, ObjectArg("layoutManager"), IdArg("startup-complete"))
        c5 == SafeDisconnect(c4, ObjectArg("sessionMode"), IdArg("updated"))
        c6 == SafeDisconnect(c5, ObjectArg("screenShield"), IdArg("locked-changed"))
        c7 == SafeDisconnect(c6, ObjectArg("screenShield"), IdArg("active-changed"))
    IN SafeDisconnect(c7, ObjectArg("screenShield"), IdArg("wake-up-screen"))

Revert(b) ==
    IF ~IsOverriden(b.menus) THEN b
    ELSE LET b1 == DestroyItems(b) IN
         [ b1 EXCEPT !.conn = RevertDisconnects(b1.conn) ]

Update(b, vis, isActive) ==
    IF ShouldOverride(vis, isActive) /\ ~IsOverriden(b.menus) THEN Apply(b)
    ELSE IF ~ShouldOverride(vis, isActive) /\ IsOverriden(b.menus) THEN Revert(b)
    ELSE b

\* a signal reaches _update only while its handler is connected
UpdateOn(sig, b, vis, isActive) ==
    IF sig \in b.conn THEN Update(b, vis, isActive) ELSE b

Untrack(conn) ==
    SafeDisconnect(SafeDisconnect(conn, ObjectArg("AppSystem"), IdArg("app-state-changed")),
                   ObjectArg("display"), IdArg("restacked"))

----------------------------------------------------------------------------
(* StickyNotesIndicator *)

PIN_SVG   == "window-pin.svg"
UNPIN_SVG == "window-unpin.svg"
PIN_THEME == "view-pin-symbolic"

LoadIcons(builtin) ==
    IF builtin THEN [ active |-> PIN_SVG, inactive |-> UNPIN_SVG ]
    ELSE [ active |-> PIN_THEME, inactive |-> PIN_THEME ]

\* an update that never leaves the active icon
UpdateIconStuck(isActive, activeIcon, inactiveIcon) ==
    activeIcon

UpdateIcon(isActive, activeIcon, inactiveIcon) ==
    IF isActive THEN activeIcon ELSE inactiveIcon

PressThreshold == 200

ActNone     == 0
ActToggle   == 1
ActShowAll  == 2
ActShowLast == 3
ActCycle    == 4
ActHideAll  == 5
ActNewNote  == 6
ActStack    == 8
ActLaunch   == 10
ActQuit     == 11
BoundActions == { ActToggle, ActShowAll, ActShowLast, ActCycle, ActHideAll,
                  ActNewNote, ActStack, ActLaunch, ActQuit }

Triggers == { "left-button-press-action", "middle-button-press-action",
              "right-button-press-action", "scroll-up-action", "scroll-down-action" }

\* _bindAction(): the binding is null (0) unless the setting names an action
BindAction(v) == IF v \in BoundActions THEN v ELSE ActNone

RunAction(a, s, outcome) ==
    CASE a = ActToggle   -> OpToggle(s)
      [] a = ActShowAll  -> OpShow(s, 0, TRUE)
      [] a = ActShowLast -> OpShow(s, 1, TRUE)
      [] a = ActCycle    -> OpShow(s, 1, FALSE)
      [] a = ActHideAll  -> OpHide(s, 0, TRUE)
      [] a = ActNewNote  -> OpNew(s, << >>, outcome)
      [] a = ActStack    -> OpStack(s, StackPos[1], StackPos[2], primary)
      [] a = ActLaunch   -> OpLaunch(s, outcome)
      [] a = ActQuit     -> OpClose(s, 0, TRUE)
      [] OTHER           -> s

NoEvent == [ set |-> FALSE, t |-> 0 ]
At(t)   == [ set |-> TRUE, t |-> t ]

\* this._last_event && event.get_time() - this._last_event < 200
IsDuplicate(last, t) == last.set /\ last.t # 0 /\ t - last.t < PressThreshold

ButtonTrigger(button) ==
    CASE button = "primary"   -> "left-button-press-action"
      [] button = "middle"    -> "middle-button-press-action"
      [] button = "secondary" -> "right-button-press-action"
      [] OTHER                -> "none"

----------------------------------------------------------------------------
(* Steps *)

IsActive(n) == n # 0

\* the record kept in lastOp; from/to are _n_windows before and after the step
Op(name) ==
    [ op |-> name, arg |-> << >>, res |-> "none", cmds |-> << >>,
      from |-> n_windows, to |-> n_windows, lock |-> launch_lock,
      emitted |-> 0, updated |-> FALSE, ignored |-> FALSE, prev |-> last_press,
      out |-> << >>, pending |-> lastOp.pending, relaunched |-> lastOp.relaunched ]

Commit(s) ==
    /\ windows' = s.ws
    /\ launch_lock' = s.lock
    /\ launch_tasks' = s.tasks

CommitMenu(b) ==
    /\ menus' = b.menus
    /\ item_menu' = b.item
    /\ connected' = b.conn

\* a restart that forgets the keep-alive setting
ShouldRelaunchAlways(isActive, keepAlive, lock) ==
    ~isActive /\ ~lock

\* a restart on every change of the count, not only when the app closes
ShouldRelaunchWhenever(isActive, keepAlive, lock) ==
    keepAlive /\ ~lock

\* force a restart if 'keep-alive', unless a launch is in progress
ShouldRelaunch(isActive, keepAlive, lock) ==
    ~isActive /\ keepAlive /\ ~lock

\* refresh(): the handler of 'app-state-changed' and 'restacked'
Refresh(outcome) ==
    LET c == Count(windows, WM_CLASS, FALSE) IN
    IF n_windows = c
    THEN /\ lastOp' = [ Op("refresh") EXCEPT !.res = "undefined" ]
         /\ UNCHANGED << compositorVars, ifaceVars, connected, menuVars, iconVars, inputVars, sideVars >>
    ELSE LET wdiff == c - n_windows
             sel   == Get(windows, WM_CLASS, wdiff, TRUE)
             s1    == EmitWindowOpened(Len(sel), Cur)
             re    == ShouldRelaunch(IsActive(c), keep_alive, s1.lock)
             s2    == IF re THEN OpLaunch(s1, outcome) ELSE s1
             s3    == IF re /\ s2.res # "exception"
                      THEN [ s2 EXCEPT !.tasks = Append(@, HideTask) ] ELSE s2
             b     == UpdateOn("notify::active", CurMenu, visible, IsActive(c))
         IN /\ Commit(s3)
            /\ n_windows' = c
            /\ CommitMenu(b)
            /\ icon' = IF disabled THEN icon
                       ELSE UpdateIcon(IsActive(c), active_icon, inactive_icon)
            /\ lastOp' = [ Op("refresh") EXCEPT
                             !.res = IF s3.res = "exception" THEN "exception" ELSE "true",
                             !.cmds = s3.cmds, !.to = c, !.emitted = Len(sel),
                             !.updated = ("notify::active" \in connected),
                             !.relaunched = IF c = 0 THEN re /\ s2.res = "true" ELSE @ ]
            /\ UNCHANGED << keep_alive, primary, visible, disabled, use_builtin,
                            active_icon, inactive_icon, inputVars, sideVars >>

Unhandled(sig) ==
    /\ lastOp' = Op(sig)
    /\ UNCHANGED << compositorVars, ifaceVars, connected, menuVars, iconVars, inputVars, sideVars >>

AppStateChanged ==
    \E outcome \in SpawnOutcomes :
        IF "app-state-changed" \in connected THEN Refresh(outcome)
        ELSE Unhandled("app-state-changed")

Restacked ==
    \E outcome \in SpawnOutcomes :
        IF "restacked" \in connected THEN Refresh(outcome)
        ELSE Unhandled("restacked")

\* the handler of changed::keep-alive
SetKeepAlive(b) ==
    /\ b # keep_alive
    /\ keep_alive' = b
    /\ lastOp' = Op("set-keep-alive")
    /\ UNCHANGED << compositorVars, n_windows, launch_lock, launch_tasks, connected,
                    menuVars, iconVars, inputVars, sideVars >>

(* the compositor and the application *)

WindowOpen(cls, hidden, movable, mon) ==
    /\ Len(windows) < MaxWindows
    /\ mon < Len(menus)
    /\ windows' = Append(windows, NewWindow(cls, hidden, movable, mon))
    /\ lastOp' = [ Op("window-open") EXCEPT !.pending = @ /\ cls # WM_CLASS ]
    /\ UNCHANGED << primary, ifaceVars, connected, menuVars, iconVars, inputVars, sideVars >>

WindowClose(i) ==
    /\ i \in 1 .. Len(windows)
    /\ windows' = [ j \in 1 .. (Len(windows) - 1) |->
                      IF j < i THEN windows[j] ELSE windows[j + 1] ]
    /\ lastOp' = Op("window-close")
    /\ UNCHANGED << primary, ifaceVars, connected, menuVars, iconVars, inputVars, sideVars >>

WindowShown(i) ==
    /\ i \in 1 .. Len(windows)
    /\ windows[i].hidden
    /\ windows' = [ windows EXCEPT ![i] = Shown(windows[i]) ]
    /\ lastOp' = Op("window-shown")
    /\ UNCHANGED << primary, ifaceVars, connected, menuVars, iconVars, inputVars, sideVars >>

(* calls of the interface: the indicator's menu, the background menu *)

SchedRoom == \A i \in 1 .. Len(windows) : Len(windows[i].sched) < MaxSched

Call(name, arg, s) ==
    /\ Commit(s)
    /\ lastOp' = [ Op(name) EXCEPT
                     !.arg = arg, !.res = s.res, !.cmds = s.cmds,
                     !.pending = IF name = "new" /\ s.res = "true"
                                 THEN /\ keep_alive
                                      /\ n_windows # 0
                                      /\ n_windows = Count(windows, WM_CLASS, FALSE)
                                 ELSE @ /\ s.cmds = << >>,
                     !.relaunched = @ /\ s.cmds = << >> ]
    /\ UNCHANGED << primary, n_windows, keep_alive, connected, menuVars, iconVars, inputVars, sideVars >>

CallLaunch ==
    /\ ~disabled
    /\ \E outcome \in SpawnOutcomes : Call("launch", << >>, OpLaunch(Cur, outcome))

CallNew ==
    /\ ~disabled
    /\ \E outcome \in SpawnOutcomes : Call("new", << >>, OpNew(Cur, << >>, outcome))

\* 'activate' of a 'New Note' entry of a background menu
BgMenuNew ==
    /\ \E i \in 1 .. Len(menus) : NEW_NOTE \in Range(menus[i])
    /\ SchedRoom
    /\ \E outcome \in SpawnOutcomes : Call("new", ClickPos, OpNew(Cur, ClickPos, outcome))

CallOpenNotes ==
    /\ ~disabled
    /\ \E outcome \in SpawnOutcomes : Call("openNotes", << >>, OpOpenNotes(Cur, outcome))

CallRestart ==
    /\ ~disabled
    /\ Call("restart", << >>, OpRestart(Cur))

CallStack(x, y) ==
    /\ ~disabled
    /\ SchedRoom
    /\ Call("stack", << x, y >>, OpStack(Cur, x, y, primary))

CallHide ==
    /\ ~disabled
    /\ Call("hide", << >>, OpHide(Cur, 0, TRUE))

CallClose ==
    /\ ~disabled
    /\ Call("close", << >>, OpClose(Cur, 0, TRUE))

(* settings and shell events that reach BackgroundMenuOverride._update *)

MenuStep(name, sig, b0) ==
    /\ CommitMenu(UpdateOn(sig, b0, visible', IsActive(n_windows)))
    /\ lastOp' = [ Op(name) EXCEPT !.updated = (sig \in connected) ]

SetVisible(v) ==
    /\ v # visible
    /\ visible' = v
    /\ MenuStep("set-override-background-menu", "changed::override-background-menu", CurMenu)
    /\ UNCHANGED << compositorVars, ifaceVars, disabled, iconVars, inputVars, sideVars >>

\* the shell rebuilds one background menu per monitor, then emits the signal
ResetMenus == [ CurMenu EXCEPT !.menus = DefaultMenus(Len(menus)), !.item = 0 ]

MonitorsChanged(p) ==
    /\ p < Len(menus)
    /\ primary' = p
    /\ visible' = visible
    /\ MenuStep("monitors-changed", "monitors-changed", ResetMenus)
    /\ UNCHANGED << windows, ifaceVars, disabled, iconVars, inputVars, sideVars >>

ShellEvent(sig, reset) ==
    /\ visible' = visible
    /\ MenuStep(sig, sig, IF reset THEN ResetMenus ELSE CurMenu)
    /\ UNCHANGED << compositorVars, ifaceVars, disabled, iconVars, inputVars, sideVars >>

\* the extension's disable(): untrack(), the indicator's destroy(), revert()
Disable ==
    /\ ~disabled
    /\ disabled' = TRUE
    /\ CommitMenu(Revert([ CurMenu EXCEPT !.conn = Untrack(connected) ]))
    /\ lastOp' = Op("disable")
    /\ UNCHANGED << compositorVars, ifaceVars, visible, iconVars, inputVars, sideVars >>

(* the indicator *)

\* the handler of changed::use-builtin-icon: _loadIcons(), which ends in _updateIcon()
SetUseBuiltin(b) ==
    /\ ~disabled
    /\ b # use_builtin
    /\ use_builtin' = b
    /\ active_icon' = LoadIcons(b).active
    /\ inactive_icon' = LoadIcons(b).inactive
    /\ icon' = UpdateIcon(IsActive(n_windows), active_icon', inactive_icon')
    /\ lastOp' = Op("set-use-builtin-icon")
    /\ UNCHANGED << compositorVars, ifaceVars, connected, menuVars, inputVars, sideVars >>

\* the handler of changed::<trigger>
SetBinding(trigger, v) ==
    /\ ~disabled
    /\ bindings[trigger] # BindAction(v)
    /\ bindings' = [ bindings EXCEPT ![trigger] = BindAction(v) ]
    /\ lastOp' = Op("bind-action")
    /\ UNCHANGED << compositorVars, ifaceVars, connected, menuVars, iconVars,
                    last_event, now, last_press, sideVars >>

Threw(s) == s.res = "exception"

\* _onButtonPress(), for a press stamped d milliseconds after the latest event
ButtonPress(button, d) ==
    LET t == now + d
        a == IF ButtonTrigger(button) \in Triggers THEN bindings[ButtonTrigger(button)]
             ELSE ActNone
    IN /\ ~disabled
       /\ t <= MaxTime
       /\ now' = t
       /\ IF IsDuplicate(last_event, t)
          THEN /\ lastOp' = [ Op("button-press") EXCEPT
                                !.arg = << t, ButtonTrigger(button), a >>, !.ignored = TRUE ]
               /\ UNCHANGED << compositorVars, ifaceVars, last_event, last_press >>
          ELSE \E outcome \in SpawnOutcomes :
                 LET s == IF a # ActNone THEN RunAction(a, Cur, outcome) ELSE Cur IN
                 /\ Commit(s)
                 /\ last_event' = IF Threw(s) THEN last_event ELSE At(t)
                 /\ last_press' = At(t)
                 /\ lastOp' = [ Op("button-press") EXCEPT
                                  !.arg = << t, ButtonTrigger(button), a >>,
                                  !.res = s.res, !.cmds = s.cmds ]
                 /\ UNCHANGED << primary, n_windows, keep_alive >>
       /\ UNCHANGED << connected, menuVars, iconVars, bindings, sideVars >>

ScrollTrigger(dir) ==
    CASE dir = "up"   -> "scroll-up-action"
      [] dir = "down" -> "scroll-down-action"
      [] OTHER        -> "none"

\* _onScroll(): the binding is called without a null check
Scroll(dir, d) ==
    LET t == now + d
        bound == ScrollTrigger(dir) \in Triggers
        a == IF bound THEN bindings[ScrollTrigger(dir)] ELSE ActNone
    IN /\ ~disabled
       /\ t <= MaxTime
       /\ now' = t
       /\ \E outcome \in SpawnOutcomes :
            LET s == IF ~bound THEN Cur
                     ELSE IF a = ActNone THEN [ Cur EXCEPT !.res = "exception" ]
                     ELSE RunAction(a, Cur, outcome)
            IN /\ Commit(s)
               /\ last_event' = IF Threw(s) THEN last_event ELSE At(t)
               /\ lastOp' = [ Op("scroll") EXCEPT
                                !.arg = << t, ScrollTrigger(dir), a >>,
                                !.res = s.res, !.cmds = s.cmds ]
       /\ UNCHANGED << primary, n_windows, keep_alive, connected, menuVars, iconVars,
                       bindings, last_press, sideVars >>

----------------------------------------------------------------------------
(* The preferences window: auto-start handling, disabling when not installed *)

PROCESS == "com.vixalien.sticky"

\* GLib.find_program_in_path sees the executable when it is installed
Path == IF installed THEN {PROCESS} ELSE {}

FileOutcomes == {"ok", "fail"}

\* a get_autostart that looks at the packaged .desktop file, which is always there
GetAutostartOfSource(file) == TRUE

\* get_autostart(name): the user's autostart .desktop file exists
GetAutostart(file) == file

\* set_autostart(name, enable): copy or delete the file; a failure is caught
\* and leaves the file as it was; deleting a file that is not there fails
SetAutostart(file, enable, outcome) ==
    IF enable THEN (IF outcome = "ok" THEN TRUE ELSE file)
    ELSE (IF outcome = "ok" /\ file THEN FALSE ELSE file)

\* disable() that stops after the first group
DisableFirstGroup(groups) ==
    [ i \in 1 .. Len(groups) |-> IF i = 1 THEN FALSE ELSE groups[i] ]

\* disable(): group.set_sensitive(false) for every group of a page
DisableGroups(groups) == [ i \in 1 .. Len(groups) |-> FALSE ]

\* the groups returned by fillGeneralPage and fillIndicatorPage, as created
GeneralGroups == << TRUE >>
IndicatorGroups == << TRUE, TRUE >>

\* fillPreferencesWindow(window)
OpenPrefs ==
    /\ ~prefs_open
    /\ autostart_handler = << >>
    /\ prefs_open' = TRUE
    /\ auto_start' = GetAutostart(desktop_file)
    /\ IF ~IsAvailable(PROCESS, Path)
       THEN /\ general_groups' = DisableGroups(GeneralGroups)
            /\ indicator_groups' = DisableGroups(IndicatorGroups)
            /\ error_boxes' = 1
       ELSE /\ general_groups' = GeneralGroups
            /\ indicator_groups' = IndicatorGroups
            /\ error_boxes' = 0
    /\ lastOp' = Op("open-prefs")
    /\ UNCHANGED << compositorVars, ifaceVars, connected, menuVars, iconVars, inputVars,
                    desktop_file, autostart_handler, installed, short_conn >>

\* the window is closed and destroyed with its pages and its settings object
ClosePrefs ==
    /\ prefs_open
    /\ autostart_handler = << >>
    /\ prefs_open' = FALSE
    /\ general_groups' = << >>
    /\ indicator_groups' = << >>
    /\ error_boxes' = 0
    /\ lastOp' = Op("close-prefs")
    /\ UNCHANGED << compositorVars, ifaceVars, connected, menuVars, iconVars, inputVars,
                    auto_start, desktop_file, autostart_handler, installed, short_conn >>

\* the auto-start setting is changed (the switch, or any other writer) while
\* the window's changed::auto-start handler is connected
ToggleAutoStart ==
    /\ prefs_open
    /\ autostart_handler = << >>
    /\ auto_start' = ~auto_start
    /\ autostart_handler' = << "run" >>
    /\ lastOp' = Op("toggle-auto-start")
    /\ UNCHANGED << compositorVars, ifaceVars, connected, menuVars, iconVars, inputVars,
                    desktop_file, installed, prefs_open, general_groups,
                    indicator_groups, error_boxes, short_conn >>

\* one invocation of the changed::auto-start handler: set_autostart, then
\* set_boolean(get_autostart); the write emits 'changed' again, and so runs the
\* handler nested in the write, only when it changes the value
AutoStartHandler(outcome) ==
    /\ autostart_handler # << >>
    /\ autostart_handler[Len(autostart_handler)] = "run"
    /\ LET file   == SetAutostart(desktop_file, auto_start, outcome)
           value  == GetAutostart(file)
           outer  == SubSeq(autostart_handler, 1, Len(autostart_handler) - 1)
       IN /\ desktop_file' = file
          /\ auto_start' = value
          /\ IF value # auto_start
             THEN /\ Len(autostart_handler) < MaxNesting
                  /\ autostart_handler' = outer \o << "write", "run" >>
             ELSE autostart_handler' = outer
          /\ lastOp' = [ Op(IF value = auto_start /\ outer = << >>
                            THEN "auto-start-handled" ELSE "auto-start-handler")
                           EXCEPT !.res = outcome, !.emitted = lastOp.emitted + 1 ]
    /\ UNCHANGED << compositorVars, ifaceVars, connected, menuVars, iconVars, inputVars,
                    installed, prefs_open, general_groups, indicator_groups,
                    error_boxes, short_conn >>

\* the nested handler has returned: the write returns and the handler with it
AutoStartReturn ==
    /\ autostart_handler # << >>
    /\ autostart_handler[Len(autostart_handler)] = "write"
    /\ autostart_handler' = SubSeq(autostart_handler, 1, Len(autostart_handler) - 1)
    /\ lastOp' = [ Op(IF Len(autostart_handler) = 1
                      THEN "auto-start-handled" ELSE "auto-start-handler")
                     EXCEPT !.emitted = lastOp.emitted ]
    /\ UNCHANGED << compositorVars, ifaceVars, connected, menuVars, iconVars, inputVars,
                    auto_start, desktop_file, installed, prefs_open, general_groups,
                    indicator_groups, error_boxes, short_conn >>

\* the file is created or removed by something else while no handler runs
ExternalFile ==
    /\ autostart_handler = << >>
    /\ desktop_file' = ~desktop_file
    /\ lastOp' = Op("external-file")
    /\ UNCHANGED << compositorVars, ifaceVars, connected, menuVars, iconVars, inputVars,
                    auto_start, autostart_handler, installed, prefs_open,
                    general_groups, indicator_groups, error_boxes, short_conn >>

\* Sticky Notes is installed or removed while no preferences window is open
SetInstalled(b) ==
    /\ ~prefs_open
    /\ installed # b
    /\ installed' = b
    /\ lastOp' = Op("set-installed")
    /\ UNCHANGED << compositorVars, ifaceVars, connected, menuVars, iconVars, inputVars,
                    auto_start, desktop_file, autostart_handler, prefs_open,
                    general_groups, indicator_groups, error_boxes, short_conn >>

----------------------------------------------------------------------------
(* ShortConnection (connect_until): a connection that ends itself *)

\* what a callback invocation comes to: a JavaScript value it returns, or a throw
CallbackResults == {"true", "1", "false", "undefined", "throws"}
TruthyResult(r) == r \in {"true", "1"}

\* no ShortConnection has been made
NoConnection ==
    [ made |-> FALSE, connected |-> FALSE, emissions |-> 0, results |-> << >>, until |-> 0 ]

\* a handler that calls the callback and never disconnects
HandlerThatStays(c, result) ==
    [ c EXCEPT !.results = Append(@, result) ]

\* the handler connected by the constructor: const ret = callback(...args);
\* if (ret) object.disconnect(this._handler_id)
ConnectionHandler(c, result) ==
    [ c EXCEPT !.results = Append(@, result),
               !.connected = ~TruthyResult(result),
               !.until = IF TruthyResult(result) THEN c.emissions ELSE @ ]

\* connect_until(object, detailed_signal, callback)
ConnectUntil ==
    /\ ~short_conn.made
    /\ short_conn' = [ short_conn EXCEPT !.made = TRUE, !.connected = TRUE ]
    /\ lastOp' = Op("connect_until")
    /\ UNCHANGED << compositorVars, ifaceVars, connected, menuVars, iconVars, inputVars,
                    prefsVars >>

\* the object emits the signal; the handler runs if it is still connected
Emit(result) ==
    /\ short_conn.made
    /\ short_conn.emissions < MaxEmissions
    /\ LET c == [ short_conn EXCEPT !.emissions = @ + 1 ] IN
       short_conn' = IF c.connected THEN ConnectionHandler(c, result) ELSE c
    /\ lastOp' = [ Op("emit") EXCEPT !.res = IF short_conn.connected THEN result ELSE "none" ]
    /\ UNCHANGED << compositorVars, ifaceVars, connected, menuVars, iconVars, inputVars,
                    prefsVars >>


----------------------------------------------------------------------------
(* The state when the extension's enable() returns *)

InitialWindows ==
    { << >>,
      << NewWindow(WM_CLASS, FALSE, TRUE, 0) >> }

\* the constructor's refresh() runs before _keep_alive, _launch_lock and
\* _launch_tasks are assigned, and so issues no command; _keep_alive then takes
\* the value of the 'keep-alive' setting
InitWith(monitorCounts, keepAlives) ==
    \E ws \in InitialWindows, k \in monitorCounts :
        /\ windows = ws
        /\ n_windows = Count(ws, WM_CLASS, FALSE)
        /\ keep_alive \in keepAlives
        /\ launch_lock = FALSE
        /\ launch_tasks = << >>
        /\ primary \in 0 .. (k - 1)
        /\ visible = VisAlways
        /\ LET b == Update([ menus |-> DefaultMenus(k), item |-> 0,
                             conn |-> TrackHandlers \cup BgHandlers ],
                           VisAlways, IsActive(Count(ws, WM_CLASS, FALSE)))
           IN /\ menus = b.menus
              /\ item_menu = b.item
              /\ connected = b.conn
        /\ disabled = FALSE
        /\ use_builtin = FALSE
        /\ active_icon = LoadIcons(FALSE).active
        /\ inactive_icon = LoadIcons(FALSE).inactive
        /\ icon = UpdateIcon(IsActive(Count(ws, WM_CLASS, FALSE)),
                             LoadIcons(FALSE).active, LoadIcons(FALSE).inactive)
        /\ bindings = [ tr \in Triggers |-> BindAction(ActNone) ]
        /\ last_event = NoEvent
        /\ now = StartTime
        /\ last_press = NoEvent
        /\ lastOp = [ op |-> "enable", arg |-> << >>, res |-> "none", cmds |-> << >>,
                      from |-> 0, to |-> Count(ws, WM_CLASS, FALSE), lock |-> FALSE,
                      emitted |-> 0, updated |-> TRUE, ignored |-> FALSE,
                      prev |-> NoEvent, out |-> << >>,
                      pending |-> FALSE, relaunched |-> FALSE ]
        /\ auto_start = FALSE
        /\ desktop_file = FALSE
        /\ autostart_handler = << >>
        /\ installed = TRUE
        /\ prefs_open = FALSE
        /\ general_groups = << >>
        /\ indicator_groups = << >>
        /\ error_boxes = 0
        /\ short_conn = NoConnection

\* the 'keep-alive' setting at its schema default
InitOn(monitorCounts) == InitWith(monitorCounts, {FALSE})

----------------------------------------------------------------------------
(* Specifications: the same machine, driven by the events each part reacts to *)

\* window tracking, launching and keep-alive, on one monitor
NextIface ==
    \/ AppStateChanged
    \/ Restacked
    \/ \E b \in BOOLEAN : SetKeepAlive(b)
    \/ \E cls \in Classes : WindowOpen(cls, FALSE, TRUE, 0)
    \/ \E i \in 1 .. MaxWindows : WindowClose(i)
    \/ CallLaunch
    \/ CallNew
    \/ CallOpenNotes
    \/ Disable

SpecIface == InitOn({1}) /\ [][NextIface]_vars

\* every 'app-state-changed' and 'restacked' emission is delivered to its handler
SpecIfaceFair == SpecIface /\ WF_vars(AppStateChanged) /\ WF_vars(Restacked)

\* the background menu: settings, shell events, active status, disable()
NextMenu ==
    \/ \E v \in Visibility : SetVisible(v)
    \/ \E p \in Monitors : MonitorsChanged(p)
    \/ \E sig \in ShellSignals, reset \in BOOLEAN : ShellEvent(sig, reset)
    \/ WindowOpen(WM_CLASS, FALSE, TRUE, 0)
    \/ \E i \in 1 .. MaxWindows : WindowClose(i)
    \/ AppStateChanged
    \/ Restacked
    \/ Disable

SpecMenu == InitOn(1 .. MaxMonitors) /\ [][NextMenu]_vars

\* the indicator: icon, bindings, button presses and scroll events
BindChoices   == { ActNone, ActHideAll }
BindTriggers  == { "left-button-press-action", "scroll-up-action" }
Buttons       == { "primary", "middle", "other" }
Directions    == { "up", "down", "smooth" }
Delays        == { PressThreshold - 1, PressThreshold }

NextIndicator ==
    \/ \E b \in BOOLEAN : SetUseBuiltin(b)
    \/ \E tr \in BindTriggers, v \in BindChoices : SetBinding(tr, v)
    \/ \E button \in Buttons, d \in Delays : ButtonPress(button, d)
    \/ \E dir \in Directions, d \in Delays : Scroll(dir, d)
    \/ WindowOpen(WM_CLASS, FALSE, TRUE, 0)
    \/ \E i \in 1 .. MaxWindows : WindowClose(i)
    \/ AppStateChanged
    \/ Restacked

SpecIndicator == InitOn({1}) /\ [][NextIndicator]_vars

\* a new note at the pointer: new(at), the queued move task, the windows
NextNote ==
    \/ BgMenuNew
    \/ \E hidden \in BOOLEAN : WindowOpen(WM_CLASS, hidden, TRUE, 0)
    \/ \E i \in 1 .. MaxWindows : WindowClose(i)
    \/ \E i \in 1 .. MaxWindows : WindowShown(i)
    \/ AppStateChanged
    \/ Restacked

SpecNote == InitOn({1}) /\ [][NextNote]_vars

\* stack(x, y) over windows on several monitors
NextStack ==
    \/ \E at \in {StackPos, ClickPos} : CallStack(at[1], at[2])
    \/ \E hidden \in BOOLEAN, movable \in BOOLEAN, mon \in Monitors :
          WindowOpen(WM_CLASS, hidden, movable, mon)
    \/ \E i \in 1 .. MaxWindows : WindowClose(i)
    \/ \E i \in 1 .. MaxWindows : WindowShown(i)
    \/ \E p \in Monitors : MonitorsChanged(p)

SpecStack == InitOn(1 .. MaxMonitors) /\ [][NextStack]_vars

(* direct calls of MultiWindowHandler.get over the compositor's window list *)

\* the values of n that get() is called with here: 0 (all windows) and counts
\* up to one more than the list can hold
GetCounts == 0 .. (MaxWindows + 1)

CallGet(wm_class, n, newer_first) ==
    /\ lastOp' = [ Op("get") EXCEPT !.arg = << wm_class, n, newer_first >>,
                                    !.out = Get(windows, wm_class, n, newer_first) ]
    /\ UNCHANGED << compositorVars, ifaceVars, connected, menuVars, iconVars, inputVars, sideVars >>

NextGet ==
    \/ \E wm_class \in Classes, n \in GetCounts, newer_first \in BOOLEAN :
          CallGet(wm_class, n, newer_first)
    \/ \E cls \in Classes : WindowOpen(cls, FALSE, TRUE, 0)
    \/ \E i \in 1 .. MaxWindows : WindowClose(i)

SpecGet == InitOn({1}) /\ [][NextGet]_vars

(* calls of first_available over candidate lists and PATH contents *)

CommandNames == {"com.vixalien.sticky", "com.vixalien.st", "sticky"}
CommandLists == UNION { [ 1 .. m -> CommandNames ] : m \in 0 .. MaxCommands }

CallFirstAvailable(commands, path) ==
    /\ lastOp' = [ Op("first_available") EXCEPT !.arg = << commands, path >>,
                                                !.res = FirstAvailable(commands, path) ]
    /\ UNCHANGED << compositorVars, ifaceVars, connected, menuVars, iconVars, inputVars, sideVars >>

NextCommands ==
    \E commands \in CommandLists, path \in SUBSET CommandNames :
        CallFirstAvailable(commands, path)

SpecCommands == InitOn({1}) /\ [][NextCommands]_vars

\* the preferences window and the auto-start setting
NextPrefs ==
    \/ OpenPrefs
    \/ ClosePrefs
    \/ ToggleAutoStart
    \/ \E outcome \in FileOutcomes : AutoStartHandler(outcome)
    \/ AutoStartReturn
    \/ ExternalFile
    \/ \E b \in BOOLEAN : SetInstalled(b)

SpecPrefs == InitOn({1}) /\ [][NextPrefs]_vars

(* the Cycle quick action over note windows that can be told apart *)

WindowIds == 1 .. MaxWindows

\* a window opens; it is given an identity not in use
NoteOpen(cls, hidden) ==
    /\ Len(windows) < MaxWindows
    /\ LET used == { windows[i].id : i \in 1 .. Len(windows) }
           fresh == CHOOSE d \in WindowIds \ used : \A e \in WindowIds \ used : d <= e
       IN windows' = Append(windows, [ NewWindow(cls, hidden, TRUE, 0) EXCEPT !.id = fresh ])
    /\ lastOp' = Op("window-open")
    /\ UNCHANGED << primary, ifaceVars, connected, menuVars, iconVars, inputVars, sideVars >>

\* the note windows of a list, bottom first
Notes(ws) == SelectSeq(ws, LAMBDA w : w.cls = WM_CLASS)

\* the Cycle action bound to a trigger; lastOp.out lists the windows found on
\* top after each of the consecutive Cycle actions of the current round
CycleAction ==
    /\ ~disabled
    /\ Notes(windows) # << >>
    /\ \E outcome \in SpawnOutcomes :
         LET s     == RunAction(BindAction(ActCycle), Cur, outcome)
             round == IF lastOp.op = "cycle" /\ Len(lastOp.out) < Len(Notes(windows))
                      THEN lastOp.out ELSE << >>
             top   == Notes(s.ws)[Len(Notes(s.ws))].id
         IN /\ Commit(s)
            /\ lastOp' = [ Op("cycle") EXCEPT !.res = s.res, !.out = Append(round, top) ]
    /\ UNCHANGED << primary, n_windows, keep_alive, connected, menuVars, iconVars,
                    inputVars, sideVars >>

NextCycle ==
    \/ CycleAction
    \/ \E cls \in Classes, hidden \in BOOLEAN : NoteOpen(cls, hidden)
    \/ \E i \in 1 .. MaxWindows : WindowClose(i)
    \/ CallHide

SpecCycle == InitOn({1}) /\ [][NextCycle]_vars

(* toggle() over notes that are shown or minimised *)

\* toggle(); lastOp.arg is << position in a pair of consecutive calls, a note
\* was visible before the first call of the pair, one was before this call >>
CallToggle ==
    /\ ~disabled
    /\ LET visible_now == Count(windows, WM_CLASS, TRUE) # 0
           second      == lastOp.op = "toggle" /\ lastOp.arg[1] = 1
       IN Call("toggle",
               << IF second THEN 2 ELSE 1,
                  IF second THEN lastOp.arg[2] ELSE visible_now,
                  visible_now >>,
               OpToggle(Cur))

NextToggle ==
    \/ CallToggle
    \/ \E cls \in Classes, hidden \in BOOLEAN : WindowOpen(cls, hidden, TRUE, 0)
    \/ \E i \in 1 .. MaxWindows : WindowClose(i)
    \/ \E i \in 1 .. MaxWindows : WindowShown(i)
    \/ AppStateChanged
    \/ Restacked

SpecToggle == InitOn({1}) /\ [][NextToggle]_vars

(* restart() with and without open notes *)

NextRestart ==
    \/ CallRestart
    \/ CallLaunch
    \/ \E b \in BOOLEAN : SetKeepAlive(b)
    \/ \E cls \in Classes : WindowOpen(cls, FALSE, TRUE, 0)
    \/ \E i \in 1 .. MaxWindows : WindowClose(i)
    \/ AppStateChanged
    \/ Restacked

SpecRestart == InitOn({1}) /\ [][NextRestart]_vars

(* a ShortConnection over the emissions of its signal *)

NextConnection ==
    \/ ConnectUntil
    \/ \E result \in CallbackResults : Emit(result)

SpecConnection == InitOn({1}) /\ [][NextConnection]_vars

(* keep-alive: the application is closed, relaunched and asked for a new note *)

NextKeepAlive ==
    \/ AppStateChanged
    \/ Restacked
    \/ \E b \in BOOLEAN : SetKeepAlive(b)
    \/ WindowOpen(WM_CLASS, FALSE, TRUE, 0)
    \/ \E i \in 1 .. MaxWindows : WindowClose(i)
    \/ CallNew

SpecKeepAlive == InitWith({1}, BOOLEAN) /\ [][NextKeepAlive]_vars

----------------------------------------------------------------------------
(* Properties *)

\* the windows of the application in the compositor's list, counted directly
LiveCount == Cardinality({ i \in 1 .. Len(windows) : windows[i].cls = WM_CLASS })

\* the last step spawned a command that starts the application
LaunchIssued ==
    \E i \in 1 .. Len(lastOp.cmds) : lastOp.cmds[i].cmd \in {LAUNCH_CMD, NEWNOTE_CMD}

\* a refresh() saw the last note window disappear
ZeroReached == lastOp.op = "refresh" /\ lastOp.from # 0 /\ lastOp.to = 0

\* C1, as stated: while the interface is tracked, n_windows is the number of
\* windows of the application's class in the compositor's current list, and
\* active is true exactly when that number is at least one.
C1_DerivedAtQueryTime ==
    ~disabled => /\ n_windows = LiveCount
                 /\ IsActive(n_windows) <=> (LiveCount >= 1)

\* C1, amended: n_windows is the count cached by the last refresh(); when
\* enable() or a refresh() returns it equals the number of windows of the
\* application's class in the list, and active is true exactly when it is >= 1.
C1_SyncedByRefresh ==
    lastOp.op \in {"enable", "refresh"} =>
        /\ n_windows = LiveCount
        /\ IsActive(n_windows) <=> (LiveCount >= 1)

C1_Witness ==
    /\ lastOp.op = "refresh"
    /\ lastOp.from # lastOp.to
    /\ LiveCount >= 1
    /\ Len(windows) > LiveCount

\* C2, as stated: with keep-alive enabled, every time the tracked window count reaches
\* zero a command that starts the application is eventually issued (unless
\* keep-alive is switched off or the extension disabled in the meantime), so
\* the application never stays closed indefinitely.
C2_KeepAliveAlwaysRelaunches ==
    (ZeroReached /\ keep_alive /\ ~disabled) ~> (LaunchIssued \/ ~keep_alive \/ disabled)

\* C2, amended: the refresh() that sees the count reach zero issues the launch
\* command exactly when keep-alive is enabled and the launch lock is clear (no
\* launch() or new() is waiting for its window).
C2_RelaunchUnlessLocked ==
    ZeroReached => (LaunchIssued <=> (keep_alive /\ ~lastOp.lock))

C2_Witness ==
    ZeroReached /\ keep_alive /\ ~lastOp.lock /\ LaunchIssued

\* C4: launch(), new() and openNotes() return true when the command succeeded
\* and false when the subprocess failed (spawn error or non-zero exit status);
\* a failure is neither an exception nor a success.
C4_BooleanReturnCodes ==
    (lastOp.op \in {"launch", "new", "openNotes"} /\ lastOp.cmds # << >>) =>
        LET o == lastOp.cmds[Len(lastOp.cmds)].outcome IN
        /\ o = "ok" => lastOp.res = "true"
        /\ o # "ok" => lastOp.res = "false"

\* C5: after untrack(), window events change neither n_windows nor active, emit
\* no 'window-opened' and issue no keep-alive relaunch.
C5_UntrackStopsRefresh ==
    (disabled /\ lastOp.op = "refresh") =>
        /\ lastOp.from = lastOp.to
        /\ lastOp.emitted = 0
        /\ lastOp.cmds = << >>

HasNewNote(i) == NEW_NOTE \in Range(menus[i])

\* C3: after every run of _update the background menu contains the 'New Note'
\* entry if and only if the setting is Always, or Dynamic with Sticky Notes active.
C3_MenuMatchesSetting ==
    lastOp.updated =>
        \A i \in 1 .. Len(menus) :
            HasNewNote(i) <=> ShouldOverride(visible, IsActive(n_windows))

\* C6: after disable() every background menu holds only its default entries,
\* whatever setting change, status change or shell event follows.
C6_DisableRestoresMenus ==
    disabled => \A i \in 1 .. Len(menus) : menus[i] = << >>

\* C7: a button press triggers no action if and only if its timestamp is less
\* than 200 ms after the previous handled button press.
C7_DebounceBetweenPresses ==
    lastOp.op = "button-press" =>
        (lastOp.ignored <=>
            (lastOp.prev.set /\ lastOp.arg[1] - lastOp.prev.t < PressThreshold))

\* C8, as stated: after every change of active and every reload of the icons the
\* displayed icon is the active icon if and only if active is true.
C8_IconIsActiveIconIffActive ==
    (~disabled /\ lastOp.op \in {"refresh", "set-use-builtin-icon"}) =>
        (icon = active_icon <=> IsActive(n_windows))

\* C8, amended: the displayed icon is the loaded active icon when active is true
\* and the loaded inactive icon when it is false; it tells the two states apart
\* (is the active icon if and only if active) when use-builtin-icon is enabled,
\* whereas with the theme icon both are view-pin-symbolic.
C8_IconFollowsActive ==
    ~disabled =>
        /\ icon = (IF IsActive(n_windows) THEN active_icon ELSE inactive_icon)
        /\ use_builtin => (icon = active_icon <=> IsActive(n_windows))
        /\ ~use_builtin => icon = PIN_THEME

C8_Witness ==
    /\ use_builtin
    /\ lastOp.op = "refresh"
    /\ lastOp.from # lastOp.to
    /\ ~IsActive(n_windows)
    /\ icon = UNPIN_SVG

\* C9: the move task queued by new(at) never runs for, or moves, a window that
\* already existed before new() was called.
C9_MoveTaskSparesOldWindows ==
    \A i \in 1 .. Len(windows) : windows[i].taskMoved => ~windows[i].old

\* C10: stack(x, y) moves every note window to the primary monitor, whatever
\* its index, and its frame to (x, y): at once if the window is shown and
\* movable, else by a handler of its next 'shown' signal.
C10_StackOnPrimary ==
    lastOp.op = "stack" =>
        \A i \in 1 .. Len(windows) :
            windows[i].cls = WM_CLASS =>
                /\ windows[i].mon = primary
                /\ IF ~windows[i].hidden /\ windows[i].movable
                   THEN windows[i].pos = lastOp.arg
                   ELSE /\ windows[i].sched # << >>
                        /\ windows[i].sched[Len(windows[i].sched)] = lastOp.arg


\* the windows of class wm_class, as indices, in the order get() visits the list
MatchesInOrder(ws, wm_class, newer_first) ==
    SelectSeq(IF newer_first THEN [ i \in 1 .. Len(ws) |-> Len(ws) + 1 - i ]
              ELSE [ i \in 1 .. Len(ws) |-> i ],
              LAMBDA i : ws[i].cls = wm_class)

\* C11: get(wm_class, n, newer_first) returns only windows of class wm_class,
\* in list order (reversed when newer_first): all of them when n = 0, the first
\* min(n, number of matches) of them when n > 0, and never more than n.
C11_GetSelection ==
    lastOp.op = "get" =>
        LET n   == lastOp.arg[2]
            all == MatchesInOrder(windows, lastOp.arg[1], lastOp.arg[3])
        IN /\ \A k \in 1 .. Len(lastOp.out) : windows[lastOp.out[k]].cls = lastOp.arg[1]
           /\ n = 0 => lastOp.out = all
           /\ n > 0 => /\ lastOp.out = SubSeq(all, 1, IF n < Len(all) THEN n ELSE Len(all))
                       /\ Len(lastOp.out) <= n

\* newer_first, asking for fewer windows than match, with another class in between
C11_Witness ==
    /\ lastOp.op = "get"
    /\ lastOp.arg[3]
    /\ lastOp.arg[2] > 0
    /\ Len(lastOp.out) = lastOp.arg[2]
    /\ Len(MatchesInOrder(windows, lastOp.arg[1], TRUE)) > lastOp.arg[2]
    /\ \E i \in 1 .. Len(windows) : windows[i].cls # lastOp.arg[1]


\* C12: first_available(commands) returns the element of lowest index that is
\* available in PATH, and null when none is available.
C12_FirstAvailableIsLowestIndex ==
    lastOp.op = "first_available" =>
        LET commands == lastOp.arg[1]
            path     == lastOp.arg[2]
            found    == { i \in 1 .. Len(commands) : commands[i] \in path }
        IN IF found = {} THEN lastOp.res = "null"
           ELSE \E i \in found : /\ \A j \in found : i <= j
                                  /\ lastOp.res = commands[i]


\* C13: when the handling of a change of auto-start has finished, the setting
\* is true exactly when the autostart .desktop file exists; the handling ends:
\* the handler's own write retriggers it at most once, also when the copy or
\* the deletion fails.
C13_AutoStartMatchesFile ==
    /\ lastOp.op = "auto-start-handled" => (auto_start <=> desktop_file)
    /\ Len(autostart_handler) <= 2
    /\ lastOp.op \in {"auto-start-handler", "auto-start-handled"} => lastOp.emitted <= 2

\* a failed copy: the handler wrote the setting back and ran a second time
C13_Witness ==
    /\ lastOp.op = "auto-start-handled"
    /\ lastOp.emitted = 2
    /\ ~auto_start
    /\ ~desktop_file

\* C19: opening the preferences window without the Sticky Notes executable
\* leaves every group of the General and Indicator pages insensitive and adds
\* one error message to the General page; with it, no group is disabled and
\* no error message is added.
C19_PrefsDisabledIffNotInstalled ==
    lastOp.op = "open-prefs" =>
        /\ general_groups # << >>
        /\ indicator_groups # << >>
        /\ \A i \in 1 .. Len(general_groups) : general_groups[i] <=> installed
        /\ \A i \in 1 .. Len(indicator_groups) : indicator_groups[i] <=> installed
        /\ error_boxes = (IF installed THEN 0 ELSE 1)

C19_Witness ==
    /\ lastOp.op = "open-prefs"
    /\ ~installed
    /\ error_boxes = 1
    /\ \A i \in 1 .. Len(indicator_groups) : ~indicator_groups[i]


\* C14: with k >= 1 note windows, k consecutive Cycle actions activate every
\* note window exactly once (no window twice within the k actions, and all of
\* them by the k-th).
C14_CycleVisitsEveryNote ==
    lastOp.op = "cycle" =>
        LET round == lastOp.out
            notes == Notes(windows)
        IN /\ \A i, j \in 1 .. Len(round) : i # j => round[i] # round[j]
           /\ \A i \in 1 .. Len(round) : \E j \in 1 .. Len(notes) : notes[j].id = round[i]
           /\ Len(round) = Len(notes) =>
                 \A j \in 1 .. Len(notes) : \E i \in 1 .. Len(round) : round[i] = notes[j].id

\* a full round over two notes with another application's window among them
C14_Witness ==
    /\ lastOp.op = "cycle"
    /\ Len(Notes(windows)) >= 2
    /\ Len(lastOp.out) = Len(Notes(windows))
    /\ \E i \in 1 .. Len(windows) : windows[i].cls # WM_CLASS


\* C15: toggle() minimises every note window when at least one is not hidden
\* and activates every note window when all are hidden; two consecutive
\* toggle() calls that start with a visible note end with every note shown.
C15_ToggleHidesOrShowsAll ==
    lastOp.op = "toggle" =>
        LET notes == Notes(windows) IN
        /\ lastOp.arg[3] => \A i \in 1 .. Len(notes) : notes[i].hidden
        /\ ~lastOp.arg[3] => \A i \in 1 .. Len(notes) : ~notes[i].hidden
        /\ (lastOp.arg[1] = 2 /\ lastOp.arg[2]) =>
              \A i \in 1 .. Len(notes) : ~notes[i].hidden

\* the second of two toggles over at least two notes, begun with a note visible
C15_Witness ==
    /\ lastOp.op = "toggle"
    /\ lastOp.arg[1] = 2
    /\ lastOp.arg[2]
    /\ Len(Notes(windows)) >= 2
    /\ \A i \in 1 .. Len(windows) : windows[i].cls = WM_CLASS => ~windows[i].hidden


\* C16: a trigger whose action setting is None performs no Sticky Notes
\* operation and raises no error: left, middle and right button presses,
\* scroll up and scroll down.
C16_NoneDoesNothing ==
    (/\ lastOp.op \in {"button-press", "scroll"}
     /\ lastOp.arg[2] \in Triggers
     /\ lastOp.arg[3] = ActNone) =>
        /\ lastOp.res # "exception"
        /\ lastOp.cmds = << >>


\* C17: restart() closes the open note windows and then issues a launch
\* command: when it returns exactly one launch command has been issued,
\* whether or not notes were open, and every note window has been closed.
C17_RestartClosesAndLaunches ==
    lastOp.op = "restart" =>
        /\ lastOp.res # "exception"
        /\ Len(lastOp.cmds) = 1
        /\ lastOp.cmds[1].cmd = LAUNCH_CMD
        /\ \A i \in 1 .. Len(windows) : windows[i].cls = WM_CLASS => windows[i].killed


\* C18: a ShortConnection's callback is invoked on every emission up to and
\* including the first one on which it returns a truthy value, and on no later
\* emission.
C18_ConnectedUntilTruthy ==
    LET rs == short_conn.results IN
    /\ \A i \in 1 .. Len(rs) : TruthyResult(rs[i]) => i = Len(rs)
    /\ (short_conn.made /\ short_conn.connected) =>
          /\ Len(rs) = short_conn.emissions
          /\ \A i \in 1 .. Len(rs) : ~TruthyResult(rs[i])
    /\ (short_conn.made /\ ~short_conn.connected) =>
          /\ rs # << >>
          /\ TruthyResult(rs[Len(rs)])
          /\ Len(rs) = short_conn.until
          /\ short_conn.until <= short_conn.emissions

\* falsy returns, then a truthy one, then an emission that reaches no callback
C18_Witness ==
    /\ short_conn.made
    /\ ~short_conn.connected
    /\ Len(short_conn.results) >= 2
    /\ short_conn.emissions > Len(short_conn.results)


\* C20: a refresh() that sees the count change from m to n emits exactly
\* max(0, n - m) 'window-opened' signals, none when the count decreases or is
\* unchanged; one that sees a window closing, and relaunches nothing, leaves
\* the launch lock and the launch tasks as they were.
C20_EmitsOnlyForNewWindows ==
    lastOp.op = "refresh" =>
        /\ lastOp.emitted = (IF lastOp.to > lastOp.from THEN lastOp.to - lastOp.from ELSE 0)
        /\ (lastOp.to < lastOp.from /\ lastOp.cmds = << >>) => launch_lock = lastOp.lock

\* the last step was a refresh() that spawned the launch command
RelaunchIssued ==
    /\ lastOp.op = "refresh"
    /\ \E i \in 1 .. Len(lastOp.cmds) : lastOp.cmds[i].cmd = LAUNCH_CMD

\* C21: with keep-alive enabled, between a new() called while notes are open
\* and the first window opened afterwards, no refresh() issues the keep-alive
\* launch command and no hide task is queued, however the closed windows
\* disappear.
C21_NewIssuesOnlyNewNote ==
    lastOp.pending =>
        /\ ~RelaunchIssued
        /\ \A i \in 1 .. Len(launch_tasks) : launch_tasks[i] # HideTask

\* C22: a command is spawned by refresh() only when it sees the window count go
\* from non-zero to zero with keep-alive enabled and no launch in progress, and
\* then it is the launch command, once; construction spawns nothing, and neither
\* does a refresh() that finds the count unchanged, at zero or elsewhere.
C22_RelaunchOnlyOnClose ==
    /\ lastOp.op = "enable" => lastOp.cmds = << >>
    /\ (lastOp.op = "refresh" /\ lastOp.cmds # << >>) =>
          /\ lastOp.from # 0
          /\ lastOp.to = 0
          /\ keep_alive
          /\ ~lastOp.lock
          /\ Len(lastOp.cmds) = 1
          /\ lastOp.cmds[1].cmd = LAUNCH_CMD

\* the last of two counted notes is gone and refresh() has relaunched, once
C22_Witness ==
    /\ RelaunchIssued
    /\ lastOp.from = 2
    /\ lastOp.to = 0
    /\ keep_alive
    /\ Len(lastOp.cmds) = 1

\* C23: after a keep-alive relaunch, once refresh() has seen every note window
\* the relaunched application has opened, all of them are minimized, whether
\* they appeared before one refresh() or before several.
C23_RelaunchedNotesHidden ==
    (lastOp.relaunched /\ lastOp.op = "refresh" /\ n_windows = LiveCount) =>
        \A i \in 1 .. Len(windows) : windows[i].cls = WM_CLASS => windows[i].hidden

====
